---- MODULE Spec2Model ----
(***************************************************************************)
(* Model of codex-rs/core/src/tools/handlers/list_dir.rs: the list_dir     *)
(* tool handler.  One behaviour is one call of ListDirHandler::handle on   *)
(* a fixed directory tree: argument validation, the work-stack traversal   *)
(* of collect_entries (one step per await point), and the sort / window /  *)
(* format tail of list_dir_slice.                                          *)
(*                                                                         *)
(* Strings are sequences of bytes (0..255), as Rust's str / OsStr are.     *)
(* usize arithmetic is done in a machine word of USIZE_BITS bits.          *)
(***************************************************************************)
EXTENDS Integers, Sequences, FiniteSets, TLC

\* list_dir.rs:19
MAX_ENTRY_LENGTH == 500

\* Width of usize.  Rust guarantees at least 16 bits; the arithmetic of
\* list_dir_slice is the same at every width.
USIZE_BITS == 16

USIZE_MAX == 2^USIZE_BITS - 1

\* Largest small offset, limit and depth a request is drawn with (the
\* largest usize values are drawn as well, see Limits).
MaxOffset == 4

MaxLimit == 2

MaxDepth == 4

Min2(a, b) == IF a <= b THEN a ELSE b

(***************************************************************************)
(* Bytes and strings                                                       *)
(***************************************************************************)
SLASH == <<47>>

\* U+FFFD REPLACEMENT CHARACTER in UTF-8, what to_string_lossy substitutes.
REPLACEMENT == <<239, 191, 189>>

Rep(b, n) == [i \in 1..n |-> b]

\* Length of the two long directory names: LongA/LongB is
\* MAX_ENTRY_LENGTH - 2 bytes, so that a child name of two bytes makes a
\* relative path of MAX_ENTRY_LENGTH + 1 bytes.
LongALen == MAX_ENTRY_LENGTH \div 2 - 1

LongBLen == MAX_ENTRY_LENGTH - 3 - LongALen

\* entry.file_name(): the bytes of each file name the modelled trees use.
\*   "e9"  is the two-byte character U+00E9,
\*   "xFF" and "xFE" are file names that are not valid UTF-8.
NameBytes(seg) ==
    CASE seg = "a"     -> <<97>>
      [] seg = "b"     -> <<98>>
      [] seg = "c"     -> <<99>>
      [] seg = "bc"    -> <<98, 99>>
      [] seg = "bd"    -> <<98, 100>>
      [] seg = "e9"    -> <<195, 169>>
      [] seg = "xFF"   -> <<255>>
      [] seg = "xFE"   -> <<254>>
      [] seg = "LongA" -> Rep(97, LongALen)
      [] seg = "LongB" -> Rep(97, LongBLen)

IsContinuation(b) == b >= 128 /\ b <= 191

IsLead2(b) == b >= 194 /\ b <= 223

\* Whether byte i of bs is part of a well-formed one- or two-byte UTF-8
\* sequence.  (The modelled file names hold no three- or four-byte sequence.)
ValidAt(bs, i) ==
    \/ bs[i] < 128
    \/ IsLead2(bs[i]) /\ i < Len(bs) /\ IsContinuation(bs[i + 1])
    \/ IsContinuation(bs[i]) /\ i > 1 /\ IsLead2(bs[i - 1])

RECURSIVE LossyFrom(_, _)
LossyFrom(bs, i) ==
    IF i > Len(bs) THEN <<>>
    ELSE (IF ValidAt(bs, i) THEN <<bs[i]>> ELSE REPLACEMENT) \o LossyFrom(bs, i + 1)

\* OsStr::to_string_lossy: the string itself when it is valid UTF-8, else
\* every invalid byte replaced by U+FFFD.
ToStringLossy(bs) ==
    IF \A i \in 1..Len(bs) : ValidAt(bs, i) THEN bs ELSE LossyFrom(bs, 1)

\* str::is_char_boundary(k): k bytes into s is not inside a code point.
IsCharBoundary(s, k) ==
    \/ k = 0
    \/ k = Len(s)
    \/ k < Len(s) /\ ~IsContinuation(s[k + 1])

\* codex_utils_string::take_bytes_at_char_boundary: the longest prefix of s
\* of at most maxb bytes that ends on a character boundary.
TakeBytesAtCharBoundary(s, maxb) ==
    IF Len(s) <= maxb THEN s
    ELSE LET ks == {k \in 0..maxb : IsCharBoundary(s, k)}
             k  == CHOOSE x \in ks : \A y \in ks : y <= x
         IN  SubSeq(s, 1, k)

\* The name is cut at MAX_ENTRY_LENGTH bytes wherever that falls.
FormatEntryName_ByteCut(name) ==
    IF Len(name) > MAX_ENTRY_LENGTH THEN SubSeq(name, 1, MAX_ENTRY_LENGTH) ELSE name

\* list_dir.rs:184-190
FormatEntryName(name) ==
    IF Len(name) > MAX_ENTRY_LENGTH
    THEN TakeBytesAtCharBoundary(name, MAX_ENTRY_LENGTH)
    ELSE name

\* Ord for str: byte-wise lexicographic order, a proper prefix first.
StrLess(a, b) ==
    LET m == Min2(Len(a), Len(b))
    IN  IF SubSeq(a, 1, m) = SubSeq(b, 1, m) THEN Len(a) < Len(b)
        ELSE LET i == CHOOSE j \in 1..m :
                          /\ a[j] # b[j]
                          /\ SubSeq(a, 1, j - 1) = SubSeq(b, 1, j - 1)
             IN  a[i] < b[i]

StrLessEq(a, b) == a = b \/ StrLess(a, b)

(***************************************************************************)
(* The directory tree: a function from the relative paths that exist (a    *)
(* path is a sequence of file names) to the file type the directory entry  *)
(* reports, without following a symbolic link.  A path below a symbolic    *)
(* link to a directory is what opening that link as a directory would      *)
(* list.  The tree is not modified during the call.                        *)
(***************************************************************************)
FILE_TYPES == {"dir", "file", "symlink_dir", "symlink_file", "fifo"}

\* What read_dir can open and enumerate.
Openable == {"dir", "symlink_dir"}

Parent(p) == SubSeq(p, 1, Len(p) - 1)

EmptyTree == [p \in {} |-> "file"]

\* The trees over a template: tmpl is a sequence of <<path, file types>>,
\* parents before children; every path is absent or has one of its types,
\* and exists only below a directory (or a link to one).
RECURSIVE TreesOver(_, _)
TreesOver(tmpl, k) ==
    IF k = 0 THEN {EmptyTree}
    ELSE LET p  == tmpl[k][1]
             ok(f) == Len(p) = 1 \/ (Parent(p) \in DOMAIN f /\ f[Parent(p)] \in Openable)
         IN  UNION { {f} \cup (IF ok(f) THEN {f @@ (p :> t) : t \in tmpl[k][2]} ELSE {})
                     : f \in TreesOver(tmpl, k - 1) }

\* Short names, up to four levels deep.
ShortTemplate ==
    << <<  <<"a">>,                {"file", "dir", "symlink_dir"} >>,
       <<  <<"b">>,                {"dir", "symlink_file", "fifo"} >>,
       <<  <<"a", "a">>,           {"file", "dir"} >>,
       <<  <<"a", "b">>,           {"file"} >>,
       <<  <<"b", "c">>,           {"file"} >>,
       <<  <<"a", "a", "a">>,      {"dir"} >>,
       <<  <<"a", "a", "a", "a">>, {"file"} >> >>

\* Two long directory names, below them relative paths of
\* MAX_ENTRY_LENGTH + 1 bytes, one ending in a two-byte character.
LongTemplate ==
    << <<  <<"LongA">>,                       {"dir"} >>,
       <<  <<"LongA", "LongB">>,              {"dir"} >>,
       <<  <<"LongA", "LongB", "bc">>,        {"file", "dir"} >>,
       <<  <<"LongA", "LongB", "bd">>,        {"file"} >>,
       <<  <<"LongA", "LongB", "e9">>,        {"file"} >>,
       <<  <<"LongA", "LongB", "bc", "a">>,   {"file"} >> >>

\* File names that are not valid UTF-8.
LossyTemplate ==
    << <<  <<"xFF">>,       {"file", "dir"} >>,
       <<  <<"xFE">>,       {"file"} >>,
       <<  <<"e9">>,        {"file"} >>,
       <<  <<"xFF", "a">>,  {"file"} >> >>

Trees ==
    TreesOver(ShortTemplate, Len(ShortTemplate))
      \cup TreesOver(LongTemplate, Len(LongTemplate))
      \cup TreesOver(LossyTemplate, Len(LossyTemplate))

\* The file names read_dir(dir) yields in the tree f (in no fixed order).
ChildrenOf(f, dir) ==
    {p[Len(p)] : p \in {q \in DOMAIN f : Len(q) = Len(dir) + 1 /\ Parent(q) = dir}}

\* FileType::is_symlink / is_dir / is_file of DirEntry::file_type, which
\* does not follow a symbolic link.
is_symlink(ft) == ft \in {"symlink_dir", "symlink_file"}

is_dir(ft) == ft = "dir"

is_file(ft) == ft = "file"

\* The type of what a link points to is used: a link to a directory
\* counts as a directory.
DirEntryKindFrom_FollowLinks(ft) ==
    IF ft \in Openable THEN "Directory"
    ELSE IF is_symlink(ft) THEN "Symlink"
    ELSE IF is_file(ft) THEN "File"
    ELSE "Other"

\* list_dir.rs:217-229
DirEntryKindFrom(ft) ==
    IF is_symlink(ft) THEN "Symlink"
    ELSE IF is_dir(ft) THEN "Directory"
    ELSE IF is_file(ft) THEN "File"
    ELSE "Other"

\* list_dir.rs:206-215
label(kind) ==
    CASE kind = "Directory" -> "[dir]"
      [] kind = "File"      -> "[file]"
      [] kind = "Symlink"   -> "[symlink]"
      [] kind = "Other"     -> "[other]"

(***************************************************************************)
(* collect_entries' per-entry computations                                 *)
(***************************************************************************)
\* The name relative to the immediate parent: the prefix is left out.
RelativePath_NoPrefix(prefix, file_name) == file_name

\* list_dir.rs:162-166: the relative path of a child, as bytes.
RelativePath(prefix, file_name) ==
    IF prefix = <<>> THEN file_name ELSE prefix \o SLASH \o file_name

\* list_dir.rs:168
DisplayName(relative_path) == FormatEntryName(ToStringLossy(relative_path))

\* Off by one: a directory found with one level left is expanded as well.
ShouldDescend_OffByOne(kind, remaining_depth) ==
    kind = "Directory" /\ remaining_depth > 0

\* list_dir.rs:175
ShouldDescend(kind, remaining_depth) ==
    kind = "Directory" /\ remaining_depth > 1

\* list_dir.rs:176: the work item pushed for a sub-directory.
WorkItem(entry_path, relative_path, display_name, remaining_depth) ==
    [dir |-> entry_path, prefix |-> relative_path, remaining_depth |-> remaining_depth - 1]

(***************************************************************************)
(* list_dir_slice's tail: sort, window, format                             *)
(***************************************************************************)
\* The comparator of list_dir.rs:117.
EntryLessEq(a, b) == StrLessEq(a.name, b.name)

\* slice::sort_unstable_by on a short slice is an insertion sort: each
\* element is moved left past the elements that compare greater.
InsertSorted(sorted, e) ==
    LET k == Cardinality({i \in 1..Len(sorted) : EntryLessEq(sorted[i], e)})
    IN  SubSeq(sorted, 1, k) \o <<e>> \o SubSeq(sorted, k + 1, Len(sorted))

RECURSIVE SortUnstableByName(_)
SortUnstableByName(es) ==
    IF es = <<>> THEN <<>>
    ELSE InsertSorted(SortUnstableByName(SubSeq(es, 1, Len(es) - 1)), es[Len(es)])

Ok(lines) == [tag |-> "Ok", lines |-> lines]

Err(msg) == [tag |-> "Err", msg |-> msg]

Panic == [tag |-> "Panic"]

NoResult == [tag |-> "None"]

\* list_dir.rs:135: "E{ordinal}: {label} {name}", kept as its three fields.
FormatLine(ordinal, entry) ==
    [ordinal |-> ordinal, label |-> label(entry.kind), name |-> entry.name]

\* list_dir.rs:130: start_index + limit in usize.  With overflow checks the
\* addition panics when the sum does not fit; without them it wraps.
AddUsize(a, b, overflow_checks) ==
    IF a + b <= USIZE_MAX THEN [panic |-> FALSE, value |-> a + b]
    ELSE IF overflow_checks THEN [panic |-> TRUE, value |-> 0]
    ELSE [panic |-> FALSE, value |-> (a + b) % (2^USIZE_BITS)]

\* list_dir.rs:130: end_index.
EndIndex(sum, len) == Min2(sum, len)

\* list_dir.rs:133-136: the formatted window entries[start_index..end_index].
FormatWindow(sorted, start_index, end_index) ==
    [position \in 1..(end_index - start_index) |->
        FormatLine(start_index + (position - 1) + 1, sorted[start_index + position])]

\* Off by one: an offset one past the end is let through.
OffsetOutOfRange_OffByOne(start_index, len) == start_index > len

\* list_dir.rs:124
OffsetOutOfRange(start_index, len) == start_index >= len

\* list_dir.rs:117-138, for the collected entries es.
SliceTail(es, offset, limit, overflow_checks) ==
    LET sorted == SortUnstableByName(es)
    IN  IF sorted = <<>> THEN Ok(<<>>)
        ELSE LET start_index == offset - 1
             IN  IF OffsetOutOfRange(start_index, Len(sorted))
                 THEN Err("offset exceeds directory entry count")
                 ELSE LET sum == AddUsize(start_index, limit, overflow_checks)
                      IN  IF sum.panic THEN Panic
                          ELSE LET end_index == EndIndex(sum.value, Len(sorted))
                               IN  \* end_index - start_index underflows, or the
                                   \* range start_index..end_index is rejected
                                   IF end_index < start_index THEN Panic
                                   ELSE Ok(FormatWindow(sorted, start_index, end_index))

(***************************************************************************)
(* ListDirHandler::handle: validation                                      *)
(***************************************************************************)
\* The limit check made before the offset check.
Validate_LimitFirst(a) ==
    IF a.limit = 0 THEN "limit must be greater than zero"
    ELSE IF a.offset = 0 THEN "offset must be a 1-indexed entry number"
    ELSE IF a.depth = 0 THEN "depth must be greater than zero"
    ELSE IF ~a.is_absolute THEN "dir_path must be an absolute path"
    ELSE ""

\* list_dir.rs:75-98: the error the request is rejected with, "" if none.
Validate(a) ==
    IF a.offset = 0 THEN "offset must be a 1-indexed entry number"
    ELSE IF a.limit = 0 THEN "limit must be greater than zero"
    ELSE IF a.depth = 0 THEN "depth must be greater than zero"
    ELSE IF ~a.is_absolute THEN "dir_path must be an absolute path"
    ELSE ""

(***************************************************************************)
(* The state machine                                                       *)
(***************************************************************************)
VARIABLES
    fs,        \* the directory tree below dir_path
    args,      \* ListDirArgs after decoding: offset, limit, depth, is_absolute
    pc,        \* "handle", "pop" (head of the outer loop), "iter" (inner loop), "done"
    stack,     \* collect_entries' work stack, the top last
    cur,       \* the popped work item whose directory is being enumerated
    pending,   \* the file names read_dir has not yet yielded for cur
    entries,   \* the Vec<DirEntry> being collected
    recorded,  \* history: the path of each entry pushed, in order
    reads,     \* history: the path of each directory read_dir was called on
    io_error,  \* history: the I/O call that failed, "none" if none has
    result     \* what handle returns

vars == <<fs, args, pc, stack, cur, pending, entries, recorded, reads, io_error, result>>

Offsets == 0..MaxOffset \cup {USIZE_MAX}

Limits == 0..MaxLimit \cup {USIZE_MAX}

Depths == 0..MaxDepth

NoItem == [dir |-> <<>>, prefix |-> <<>>, remaining_depth |-> 0]

Init ==
    /\ fs \in Trees
    /\ args \in [offset : Offsets, limit : Limits, depth : Depths, is_absolute : BOOLEAN]
    /\ pc = "handle"
    /\ stack = <<>>
    /\ cur = NoItem
    /\ pending = {}
    /\ entries = <<>>
    /\ recorded = <<>>
    /\ reads = <<>>
    /\ io_error = "none"
    /\ result = NoResult

\* list_dir.rs:68-100: validate, then enter list_dir_slice and
\* collect_entries, whose stack starts with the root (list_dir.rs:147).
Handle ==
    /\ pc = "handle"
    /\ IF Validate(args) # ""
       THEN /\ result' = Err(Validate(args))
            /\ pc' = "done"
            /\ stack' = stack
       ELSE /\ stack' = <<[dir |-> <<>>, prefix |-> <<>>, remaining_depth |-> args.depth]>>
            /\ pc' = "pop"
            /\ result' = result
    /\ UNCHANGED <<fs, args, cur, pending, entries, recorded, reads, io_error>>

\* list_dir.rs:149-152: pop a work item and open its directory.
ReadDir ==
    /\ pc = "pop"
    /\ stack # <<>>
    /\ cur' = stack[Len(stack)]
    /\ stack' = SubSeq(stack, 1, Len(stack) - 1)
    /\ pending' = ChildrenOf(fs, stack[Len(stack)].dir)
    /\ reads' = Append(reads, stack[Len(stack)].dir)
    /\ pc' = "iter"
    /\ UNCHANGED <<fs, args, entries, recorded, io_error, result>>

\* The error is swallowed: the failing directory or entry is skipped and
\* the traversal goes on.
Abort_SkipAndContinue(msg) ==
    /\ result' = result
    /\ pc' = IF pc = "pop" THEN "pop" ELSE "iter"
    /\ stack' = IF pc = "pop" THEN SubSeq(stack, 1, Len(stack) - 1) ELSE stack
    /\ cur' = cur
    /\ pending' = IF pending = {} THEN pending ELSE pending \ {CHOOSE x \in pending : TRUE}
    /\ entries' = entries

\* What the ? operator does with an I/O error: list_dir_slice and handle
\* return it, and the locals (stack, entries) are dropped.
Abort(msg) ==
    /\ result' = Err(msg)
    /\ pc' = "done"
    /\ stack' = <<>>
    /\ cur' = NoItem
    /\ pending' = {}
    /\ entries' = <<>>

\* list_dir.rs:150-152: read_dir fails.
ReadDirFail ==
    /\ pc = "pop"
    /\ stack # <<>>
    /\ Abort("failed to read directory")
    /\ reads' = Append(reads, stack[Len(stack)].dir)
    /\ io_error' = "read_dir"
    /\ UNCHANGED <<fs, args, recorded>>

\* list_dir.rs:154-177: next_entry yields a child; it is classified,
\* recorded, and pushed when it is a directory with depth left.
NextEntry ==
    /\ pc = "iter"
    /\ \E file_name \in pending :
         LET entry_path    == Append(cur.dir, file_name)
             file_type     == fs[entry_path]
             relative_path == RelativePath(cur.prefix, NameBytes(file_name))
             display_name  == DisplayName(relative_path)
             kind          == DirEntryKindFrom(file_type)
         IN  /\ entries' = Append(entries, [name |-> display_name, kind |-> kind])
             /\ recorded' = Append(recorded, entry_path)
             /\ stack' = IF ShouldDescend(kind, cur.remaining_depth)
                         THEN Append(stack, WorkItem(entry_path, relative_path,
                                                     display_name, cur.remaining_depth))
                         ELSE stack
             /\ pending' = pending \ {file_name}
    /\ UNCHANGED <<fs, args, pc, cur, reads, io_error, result>>

\* list_dir.rs:154-156: next_entry fails.
NextEntryFail ==
    /\ pc = "iter"
    /\ Abort("failed to read directory")
    /\ io_error' = "next_entry"
    /\ UNCHANGED <<fs, args, recorded, reads>>

\* list_dir.rs:157-159: file_type fails for the child next_entry yielded.
FileTypeFail ==
    /\ pc = "iter"
    /\ pending # {}
    /\ Abort("failed to inspect entry")
    /\ io_error' = "file_type"
    /\ UNCHANGED <<fs, args, recorded, reads>>

\* list_dir.rs:154: next_entry yields None, back to the outer loop.
EndOfDir ==
    /\ pc = "iter"
    /\ pending = {}
    /\ pc' = "pop"
    /\ cur' = NoItem
    /\ UNCHANGED <<fs, args, stack, pending, entries, recorded, reads, io_error, result>>

\* list_dir.rs:149, 181, 117-138: the stack is empty, collect_entries
\* returns Ok and list_dir_slice sorts, windows and formats.
Finish ==
    /\ pc = "pop"
    /\ stack = <<>>
    /\ \E overflow_checks \in BOOLEAN :
         result' = SliceTail(entries, args.offset, args.limit, overflow_checks)
    /\ pc' = "done"
    /\ UNCHANGED <<fs, args, stack, cur, pending, entries, recorded, reads, io_error>>

Next ==
    \/ Handle
    \/ ReadDir
    \/ ReadDirFail
    \/ NextEntry
    \/ NextEntryFail
    \/ FileTypeFail
    \/ EndOfDir
    \/ Finish

Spec == Init /\ [][Next]_vars

(***************************************************************************)
(* Properties                                                              *)
(***************************************************************************)
OFFSET_ERROR == "offset exceeds directory entry count"

\* The request passes every check of handle.
ValidRequest ==
    args.offset >= 1 /\ args.limit >= 1 /\ args.depth >= 1 /\ args.is_absolute

\* collect_entries has returned Ok (the stack ran empty without an I/O error).
Collected ==
    /\ ValidRequest
    /\ io_error = "none"
    /\ \/ pc = "done"
       \/ pc = "pop" /\ stack = <<>>

\* list_dir_slice has run to its end on the collected entries.
Sliced == Collected /\ pc = "done"

\* Path::join over a whole relative path: the file names joined by "/".
RECURSIVE PathBytes(_)
PathBytes(p) ==
    IF p = <<>> THEN <<>>
    ELSE IF Len(p) = 1 THEN NameBytes(p[1])
    ELSE PathBytes(Parent(p)) \o SLASH \o NameBytes(p[Len(p)])

\* s is a rearrangement of t.
IsPermutation(s, t) ==
    /\ Len(s) = Len(t)
    /\ \A e \in {s[i] : i \in 1..Len(s)} \cup {t[i] : i \in 1..Len(t)} :
         Cardinality({i \in 1..Len(s) : s[i] = e}) = Cardinality({i \in 1..Len(t) : t[i] = e})

\* es is in byte-wise non-decreasing order of name.
IsSortedByName(es) ==
    \A i \in 1..(Len(es) - 1) : StrLessEq(es[i].name, es[i + 1].name)

\* The page at ranks offset .. min(offset + limit - 1, n) of the list full,
\* each labelled with its rank in full.
Page(full, offset, limit) ==
    LET hi == Min2(offset + limit - 1, Len(full))
    IN  [i \in 1..(hi - offset + 1) |->
            [ordinal |-> offset + i - 1,
             label   |-> label(full[offset + i - 1].kind),
             name    |-> full[offset + i - 1].name]]

\* C1: for a non-empty collected entry set of size n and 1 <= offset <= n,
\* limit >= 1, list_dir_slice returns exactly the entries at ranks
\* offset .. min(offset + limit - 1, n) of the entries sorted byte-wise by
\* name, in that order, each labelled with its absolute rank.
C1_PageOfSortedEntries ==
    (Sliced /\ entries # <<>> /\ args.offset <= Len(entries)) =>
        /\ result.tag = "Ok"
        /\ \E full \in {SortUnstableByName(entries)} :
             /\ IsPermutation(full, entries)
             /\ IsSortedByName(full)
             /\ result.lines = Page(full, args.offset, args.limit)

\* C2: list_dir_slice fails with the offset-out-of-range error exactly when
\* the collected entry set is non-empty and offset exceeds its size; on an
\* empty entry set it returns an empty list of lines for every offset and
\* limit.
C2_OffsetErrorExactly ==
    /\ result = Err(OFFSET_ERROR) => Sliced
    /\ Sliced =>
         /\ (result = Err(OFFSET_ERROR)) <=> (entries # <<>> /\ args.offset > Len(entries))
         /\ entries = <<>> => result = Ok(<<>>)

C2_Witness ==
    /\ Sliced
    /\ Len(entries) >= 2
    /\ args.offset = Len(entries) + 1
    /\ result = Err(OFFSET_ERROR)

\* C10: for offset >= 1, limit >= 1 (the largest usize included) and a
\* non-empty entry set of size n >= offset, start_index + limit is computed
\* without overflow and the call returns a value rather than panicking.
C10_WindowNeverPanics ==
    (Sliced /\ entries # <<>> /\ args.offset <= Len(entries)) =>
        /\ (args.offset - 1) + args.limit <= USIZE_MAX
        /\ result.tag # "Panic"

Range(q) == {q[i] : i \in 1..Len(q)}

\* Every proper ancestor of p below the root is a real directory.
BelowDirectories(f, p) ==
    \A k \in 1..(Len(p) - 1) : f[SubSeq(p, 1, k)] = "dir"

\* C3: with depth d >= 1, in every state of collect_entries every recorded
\* entry's relative path has between 1 and d segments and no directory whose
\* relative path has d segments (or more) is read; once the traversal has
\* completed, every directory whose path has exactly d segments, found
\* below directories, has been recorded all the same.
C3_DepthBound ==
    ValidRequest =>
        /\ \A p \in Range(recorded) : Len(p) >= 1 /\ Len(p) <= args.depth
        /\ \A p \in Range(reads) : Len(p) < args.depth
        /\ \A item \in Range(stack) \cup (IF pc = "iter" THEN {cur} ELSE {}) :
             Len(item.dir) < args.depth
        /\ Collected =>
             \A p \in DOMAIN fs :
                 (Len(p) = args.depth /\ fs[p] = "dir" /\ BelowDirectories(fs, p))
                     => p \in Range(recorded)

\* The traversal is over, and a directory at the deepest permitted depth, which
\* has a child of its own, was recorded and its child was not.
C3_Witness ==
    /\ Collected
    /\ pc = "done"
    /\ args.depth = 2
    /\ <<"a", "a">> \in Range(recorded)
    /\ <<"a", "a", "a">> \in DOMAIN fs
    /\ fs[<<"a", "a">>] = "dir"

\* C4: when a directory read (read_dir or next_entry) or a file-type
\* inspection fails, the whole operation ends with the error and returns no
\* lines, whatever had been collected; the traversal does not go on.
C4_IoFailureAborts ==
    /\ io_error # "none" =>
         /\ pc = "done"
         /\ result.tag = "Err"
         /\ result.msg = (IF io_error = "file_type" THEN "failed to inspect entry"
                          ELSE "failed to read directory")
         /\ stack = <<>>
    /\ result.tag = "Ok" => io_error = "none"

\* An inspection failed after two entries had been collected and a
\* sub-directory was waiting on the stack.
C4_Witness ==
    /\ io_error = "file_type"
    /\ Len(recorded) >= 2
    /\ Len(reads) = 1
    /\ \E p \in Range(recorded) : fs[p] = "dir" /\ args.depth >= 2
    /\ result = Err("failed to inspect entry")

\* The error of the first failing check, in the order offset, limit, depth, path.
FirstRejection ==
    IF args.offset = 0 THEN "offset must be a 1-indexed entry number"
    ELSE IF args.limit = 0 THEN "limit must be greater than zero"
    ELSE IF args.depth = 0 THEN "depth must be greater than zero"
    ELSE "dir_path must be an absolute path"

\* C8: when offset, limit or depth is 0 or dir_path is not absolute, handle
\* returns a rejection error without entering list_dir_slice (no directory
\* is read, nothing is collected), and the error is that of the first
\* failing check in the order offset, limit, depth, path.
C8_ValidatedBeforeTraversal ==
    ~ValidRequest =>
        /\ pc \in {"handle", "done"}
        /\ reads = <<>>
        /\ recorded = <<>>
        /\ stack = <<>>
        /\ pc = "done" => result = Err(FirstRejection)

\* Every check fails at once; the offset error is the one reported.
C8_Witness ==
    /\ pc = "done"
    /\ args.offset = 0 /\ args.limit = 0 /\ args.depth = 0 /\ ~args.is_absolute
    /\ result = Err("offset must be a 1-indexed entry number")
    /\ fs # EmptyTree

NoDuplicates(q) == \A i, j \in 1..Len(q) : q[i] = q[j] => i = j

\* The objects within the depth bound that are found below directories.
Reachable(f, depth) ==
    {p \in DOMAIN f : Len(p) <= depth /\ BelowDirectories(f, p)}

\* The kind of an object by its own file type: a link is a Symlink whatever
\* it points to.
KindOf(ft) ==
    CASE ft \in {"symlink_dir", "symlink_file"} -> "Symlink"
      [] ft = "dir"  -> "Directory"
      [] ft = "file" -> "File"
      [] OTHER       -> "Other"

\* What is left to do: the objects not yet recorded, the directories
\* waiting on the stack, and the position in the loops.
Variant ==
    4 * (Cardinality(DOMAIN fs) - Len(recorded)) + 2 * Len(stack)
      + (CASE pc = "handle" -> 4 [] pc = "iter" -> 2 [] pc = "pop" -> 1 [] pc = "done" -> 0)

\* The call is done or can take a step that is not an I/O failure (for
\* NextEntry and Finish, whose steps are defined whenever their guards hold,
\* the guards are written out).
CanStep ==
    \/ pc = "done"
    \/ ENABLED (Handle \/ ReadDir \/ EndOfDir)
    \/ pc = "iter" /\ pending # {}
    \/ pc = "pop" /\ stack = <<>>

C9_Safety ==
    /\ NoDuplicates(reads)
    /\ NoDuplicates(recorded)
    /\ \A p \in Range(reads) : p = <<>> \/ fs[p] = "dir"
    /\ \A item \in Range(stack) : item.dir = <<>> \/ fs[item.dir] = "dir"
    /\ Collected =>
         /\ stack = <<>>
         /\ Range(recorded) = Reachable(fs, args.depth)
         /\ Len(entries) = Len(recorded)
         /\ \A i \in 1..Len(entries) : entries[i].kind = KindOf(fs[recorded[i]])

\* C9: without an I/O failure collect_entries terminates with the stack
\* empty, having recorded exactly once each precisely the objects whose
\* path has between 1 and depth segments and whose proper ancestors are all
\* directories; a symbolic link is recorded as Symlink and never pushed or
\* read, even when it points to a directory; no directory is read twice.
\* (Stated of every step of the call: it starts and ends in a state where
\* the above holds; until the call is done a step can be taken; and each step
\* decreases Variant, which is never negative, so the call terminates.)
C9_CompleteTraversal ==
    [][ /\ C9_Safety /\ C9_Safety'
        /\ CanStep'
        /\ Variant' >= 0
        /\ Variant' < Variant ]_vars

\* A completed traversal of a tree where "a" is a link to a directory that
\* has an entry, next to a real directory that was expanded.
C9_Witness ==
    /\ Collected
    /\ pc = "done"
    /\ args.depth >= 2
    /\ <<"a">> \in DOMAIN fs /\ fs[<<"a">>] = "symlink_dir"
    /\ <<"a", "a">> \in DOMAIN fs
    /\ <<"a">> \in Range(recorded)
    /\ <<"b", "c">> \in Range(recorded)
    /\ reads = << <<>>, <<"b">> >>

\* A fixed enumeration of a set.
RECURSIVE SetToSeq(_)
SetToSeq(S) ==
    IF S = {} THEN <<>>
    ELSE LET x == CHOOSE y \in S : TRUE IN <<x>> \o SetToSeq(S \ {x})

\* The entries one run of collect_entries collects: the run in which every
\* read_dir yields its children in the order SetToSeq fixes.
RECURSIVE ReferenceLoop(_, _, _)
RECURSIVE ReferenceDir(_, _, _, _, _)
ReferenceLoop(f, stk, es) ==
    IF stk = <<>> THEN es
    ELSE ReferenceDir(f, stk[Len(stk)], SetToSeq(ChildrenOf(f, stk[Len(stk)].dir)),
                      SubSeq(stk, 1, Len(stk) - 1), es)

ReferenceDir(f, item, names, stk, es) ==
    IF names = <<>> THEN ReferenceLoop(f, stk, es)
    ELSE LET entry_path    == Append(item.dir, Head(names))
             relative_path == RelativePath(item.prefix, NameBytes(Head(names)))
             display_name  == DisplayName(relative_path)
             kind          == DirEntryKindFrom(f[entry_path])
         IN  ReferenceDir(f, item, Tail(names),
                          IF ShouldDescend(kind, item.remaining_depth)
                          THEN Append(stk, WorkItem(entry_path, relative_path,
                                                    display_name, item.remaining_depth))
                          ELSE stk,
                          Append(es, [name |-> display_name, kind |-> kind]))

ReferenceEntries ==
    ReferenceLoop(fs, <<[dir |-> <<>>, prefix |-> <<>>, remaining_depth |-> args.depth]>>, <<>>)

\* C5: for a fixed tree and fixed (offset, limit, depth) the output does not
\* depend on the order in which directories are enumerated: every run
\* returns what the reference run returns.
C5_Deterministic ==
    Sliced => result = SliceTail(ReferenceEntries, args.offset, args.limit, TRUE)

\* The relative path of entry i is valid UTF-8 of at most MAX_ENTRY_LENGTH
\* bytes, so that its name is the path itself.
Plain(p) ==
    /\ ToStringLossy(PathBytes(p)) = PathBytes(p)
    /\ Len(PathBytes(p)) <= MAX_ENTRY_LENGTH

\* C6 as stated: after a successful collect_entries no two entries have the
\* same name.
C6_NamesUnique ==
    Collected => \A i, j \in 1..Len(entries) : entries[i].name = entries[j].name => i = j

\* C6, amended: after a successful collect_entries no two entries whose
\* relative paths are both valid UTF-8 and at most MAX_ENTRY_LENGTH bytes
\* long have the same name.
C6_PlainNamesUnique ==
    Collected =>
        \A i, j \in 1..Len(entries) :
            (Plain(recorded[i]) /\ Plain(recorded[j]) /\ entries[i].name = entries[j].name)
                => i = j

\* A completed traversal in which every path is short valid UTF-8 and the
\* same file name "a" was recorded in three nested directories.
C6_Witness ==
    /\ Collected
    /\ {<<"a">>, <<"a", "a">>, <<"a", "a", "a">>} \subseteq Range(recorded)
    /\ \A p \in Range(recorded) : Plain(p)

IsPrefix(a, b) == Len(a) <= Len(b) /\ SubSeq(b, 1, Len(a)) = a

====
